---- MODULE Spec2Model ----
(***************************************************************************)
(* react-overflow-indicator (src/src/index.tsx).                           *)
(*                                                                         *)
(* The provider <Overflow> keeps { canScroll } in a useReducer store, the  *)
(* content wrapper <Overflow.Content> owns four IntersectionObservers, one *)
(* per direction, whose callbacks dispatch CHANGE actions, and             *)
(* <Overflow.Indicator> derives an active flag from the shared context.    *)
(*                                                                         *)
(* Object identity (===) is modelled by an id field: two state objects are *)
(* the same object exactly when their ids are equal.  Lengths are CSS      *)
(* pixels; rectangles are in the coordinate space of the viewport element, *)
(* whose top-left corner is (0, 0).                                        *)
(***************************************************************************)
EXTENDS Integers, Sequences, FiniteSets, TLC

----------------------------------------------------------------------------
(* Bounds                                                                  *)

\* lengths are multiples of 5px up to 5 * MaxUnits
MaxUnits == 6
\* most platform events (scroll, resize, irregular report) in one behaviour
MaxEvents == 1
\* most re-renders of the provider with changed props in one behaviour
MaxRerender == 1
\* most actions pending in the update queue of useReducer
MaxQueue == 2
\* most entries one observer holds queued before its callback runs
MaxEntries == 2

Lengths == {5 * i : i \in 0..MaxUnits}

Max(a, b) == IF a >= b THEN a ELSE b
Min(a, b) == IF a <= b THEN a ELSE b

----------------------------------------------------------------------------
(* Store: Direction, reducer, getInitialState                              *)

Direction == {"up", "left", "right", "down"}

\* the object returned by getInitialState(); its identity is id 0
getInitialState ==
    [id |-> 0,
     canScroll |-> [up |-> FALSE, left |-> FALSE, right |-> FALSE, down |-> FALSE]]

\* { type: 'CHANGE', direction, canScroll }
Change(d, b) == [type |-> "CHANGE", direction |-> d, canScroll |-> b]

\* reducer without the currentValue === action.canScroll early return
reducerNoEarlyReturn(state, action, fresh) ==
    IF action.type = "CHANGE"
    THEN [id |-> fresh,
          canScroll |->
             [k \in DOMAIN state.canScroll \cup {action.direction} |->
                 IF k = action.direction THEN action.canScroll
                 ELSE state.canScroll[k]]]
    ELSE state

\* reducer that starts the new canScroll from the initial one instead of
\* spreading state.canScroll
reducerResetOthers(state, action, fresh) ==
    IF action.type = "CHANGE"
    THEN IF state.canScroll[action.direction] = action.canScroll
         THEN state
         ELSE [id |-> fresh,
               canScroll |->
                  [k \in Direction |->
                      IF k = action.direction THEN action.canScroll ELSE FALSE]]
    ELSE state

\* reducer that forgets the spread of state.canScroll
reducerNoSpread(state, action, fresh) ==
    IF action.type = "CHANGE"
    THEN IF state.canScroll[action.direction] = action.canScroll
         THEN state
         ELSE [id |-> fresh,
               canScroll |-> [k \in {action.direction} |-> action.canScroll]]
    ELSE state

\* reducer that applies an action of any type as if it were a CHANGE
reducerAnyType(state, action, fresh) ==
    LET currentValue == state.canScroll[action.direction] IN
    IF currentValue = action.canScroll
    THEN state
    ELSE [id |-> fresh,
          canScroll |->
             [k \in DOMAIN state.canScroll \cup {action.direction} |->
                 IF k = action.direction THEN action.canScroll
                 ELSE state.canScroll[k]]]

\* reducer(state, action); fresh is the identity a newly allocated object gets
reducer(state, action, fresh) ==
    IF action.type = "CHANGE"
    THEN LET currentValue == state.canScroll[action.direction] IN
         IF currentValue = action.canScroll
         THEN state
         ELSE [id |-> fresh,
               canScroll |->
                  [k \in DOMAIN state.canScroll \cup {action.direction} |->
                      IF k = action.direction THEN action.canScroll
                      ELSE state.canScroll[k]]]
    ELSE state

\* useReducer processing its pending update queue in one render: the reducer
\* is folded over the queued actions in dispatch order.  produced collects
\* the new state objects, one per state-changing action.
RECURSIVE Reduce(_, _, _, _)
Reduce(s, q, fresh, produced) ==
    IF q = <<>>
    THEN [state |-> s, fresh |-> fresh, produced |-> produced]
    ELSE LET t == reducer(s, Head(q), fresh) IN
         IF t.id = s.id
         THEN Reduce(t, Tail(q), fresh, produced)
         ELSE Reduce(t, Tail(q), fresh + 1, Append(produced, t))

----------------------------------------------------------------------------
(* Geometry seen by the four IntersectionObservers                         *)

\* rootMargin of each observer, in percent of the root's own extent
rootMargin(d) ==
    CASE d = "up"    -> [top |-> 100,  right |-> 0,    bottom |-> -100, left |-> 0]
      [] d = "left"  -> [top |-> 0,    right |-> -100, bottom |-> 0,    left |-> 100]
      [] d = "right" -> [top |-> 0,    right |-> 100,  bottom |-> 0,    left |-> -100]
      [] d = "down"  -> [top |-> -100, right |-> 0,    bottom |-> 100,  left |-> 0]

\* root intersection rectangle: the viewport box grown by rootMargin
RootRect(d, g) ==
    LET m == rootMargin(d) IN
    [l |-> 0 - (m.left * g.vw) \div 100,
     t |-> 0 - (m.top * g.vh) \div 100,
     r |-> g.vw + (m.right * g.vw) \div 100,
     b |-> g.vh + (m.bottom * g.vh) \div 100]

\* box of the content node (contentRef)
ContentRect(g) ==
    [l |-> 0 - g.sl, t |-> 0 - g.st, r |-> g.cw - g.sl, b |-> g.ch - g.st]

\* box of the tolerance element: absolutely positioned in the content box
\* with top, left, right and bottom all equal to tolerance; a used width or
\* height never goes below zero, the top/left inset wins
toleranceElement(g, tol) ==
    LET c == ContentRect(g)
        w == Max(0, g.cw - 2 * tol)
        h == Max(0, g.ch - 2 * tol)
    IN [l |-> c.l + tol, t |-> c.t + tol, r |-> c.l + tol + w, b |-> c.t + tol + h]

\* const watchRef = tolerance ? toleranceRef : contentRef
watchRef(tol) == IF tol # 0 THEN "tolerance" ELSE "content"

NodeRect(node, g, tol) ==
    IF node = "tolerance" THEN toleranceElement(g, tol) ELSE ContentRect(g)

Width(rect) == rect.r - rect.l
Height(rect) == rect.b - rect.t
Area(rect) == Width(rect) * Height(rect)

\* const threshold = [0, 1e-12]; a ratio is num / den.  Index of the first
\* threshold greater than the ratio, or the number of thresholds
thresholdIndex(num, den) == IF num = 0 THEN 1 ELSE 2

\* the IntersectionObserverEntry the observer of direction d computes for
\* node: rectangles that touch intersect (with zero area), and a target of
\* zero area has ratio 1 when it intersects
ComputeEntry(d, node, g, tol) ==
    LET target == NodeRect(node, g, tol)
        root == RootRect(d, g)
        il == Max(target.l, root.l)
        ir == Min(target.r, root.r)
        it == Max(target.t, root.t)
        ib == Min(target.b, root.b)
        isIntersecting == il <= ir /\ it <= ib
        interArea == IF isIntersecting THEN (ir - il) * (ib - it) ELSE 0
        targetArea == Area(target)
    IN [target |-> node,
        width |-> Width(target),
        height |-> Height(target),
        ratioNum |-> IF targetArea # 0 THEN interArea
                     ELSE IF isIntersecting THEN 1 ELSE 0,
        ratioDen |-> IF targetArea # 0 THEN targetArea ELSE 1,
        isIntersecting |-> isIntersecting]

----------------------------------------------------------------------------
(* Observer callback                                                       *)

\* the callback without the early return on ignore
createObserverNoIgnore(ignoreFlag, direction, entries) ==
    LET entry == entries[1]
        hasSize == entry.width # 0 \/ entry.height # 0
        canScroll == hasSize /\ entry.ratioNum # 0 /\ entry.isIntersecting
    IN <<Change(direction, canScroll)>>

\* the callback trusting intersectionRatio alone
createObserverRatioOnly(ignoreFlag, direction, entries) ==
    IF ignoreFlag
    THEN <<>>
    ELSE LET entry == entries[1]
             hasSize == entry.width # 0 \/ entry.height # 0
             canScroll == hasSize /\ entry.ratioNum # 0
         IN <<Change(direction, canScroll)>>

\* the callback createObserver(direction, rootMargin) hands to its
\* IntersectionObserver: the actions it dispatches (none or one) when called
\* with the queued entries while the effect's ignore flag is ignoreFlag
createObserver(ignoreFlag, direction, entries) ==
    IF ignoreFlag
    THEN <<>>
    ELSE LET entry == entries[1]
             hasSize == entry.width # 0 \/ entry.height # 0
             canScroll == hasSize /\ entry.ratioNum # 0 /\ entry.isIntersecting
         IN <<Change(direction, canScroll)>>

\* the effect with state missing from its dependencies
onStateChangeDepsNoState(oldCb, newCb, oldState, newState) ==
    oldCb # newCb

\* the effect without a dependency list: it runs after every commit
onStateChangeDepsNone(oldCb, newCb, oldState, newState) ==
    TRUE

\* useEffect(..., [onStateChange, refs, state]) of the provider: the effect
\* runs again when a dependency has a new identity (refs never has)
onStateChangeDeps(oldCb, newCb, oldState, newState) ==
    oldCb # newCb \/ oldState.id # newState.id

\* const Context = React.createContext({}): what useOverflow() returns where
\* no provider encloses the caller, a record without any field
Context == [k \in {} |-> k]

\* the value the provider publishes: { state, dispatch, tolerance, refs }
ProviderContext(s, tol) ==
    [state |-> s, dispatch |-> "dispatch", tolerance |-> tol, refs |-> "refs"]

\* an indicator that without a direction is active only when all four
\* directions can scroll
OverflowIndicatorAll(ctx, direction, isFunction) ==
    IF "state" \notin DOMAIN ctx
    THEN [evaluated |-> TRUE, threw |-> TRUE, direction |-> direction,
          isFunction |-> isFunction]
    ELSE LET canScroll == ctx.state.canScroll
             isActive == IF direction # "any"
                         THEN canScroll[direction]
                         ELSE canScroll.up /\ canScroll.left
                                /\ canScroll.right /\ canScroll.down
             shouldRender == IF isFunction THEN TRUE ELSE isActive
             stateArg == IF direction # "any" THEN isActive ELSE canScroll
         IN [evaluated |-> TRUE, threw |-> FALSE, direction |-> direction,
             isFunction |-> isFunction, active |-> isActive,
             rendered |-> shouldRender,
             arg |-> IF isFunction THEN stateArg ELSE "none"]

\* an indicator that renders the result of a children function only while
\* it is active
OverflowIndicatorGated(ctx, direction, isFunction) ==
    IF "state" \notin DOMAIN ctx
    THEN [evaluated |-> TRUE, threw |-> TRUE, direction |-> direction,
          isFunction |-> isFunction]
    ELSE LET canScroll == ctx.state.canScroll
             isActive == IF direction # "any"
                         THEN canScroll[direction]
                         ELSE canScroll.up \/ canScroll.left
                                \/ canScroll.right \/ canScroll.down
             shouldRender == isActive
             stateArg == IF direction # "any" THEN isActive ELSE canScroll
         IN [evaluated |-> TRUE, threw |-> FALSE, direction |-> direction,
             isFunction |-> isFunction, active |-> isActive,
             rendered |-> shouldRender,
             arg |-> IF isFunction THEN stateArg ELSE "none"]

\* OverflowIndicator({ children, direction }) evaluated with context ctx;
\* direction "any" stands for no direction prop, isFunction for children
\* being a function.  Destructuring canScroll from a state that is
\* undefined throws a TypeError.
OverflowIndicator(ctx, direction, isFunction) ==
    IF "state" \notin DOMAIN ctx
    THEN [evaluated |-> TRUE, threw |-> TRUE, direction |-> direction,
          isFunction |-> isFunction]
    ELSE LET canScroll == ctx.state.canScroll
             isActive == IF direction # "any"
                         THEN canScroll[direction]
                         ELSE canScroll.up \/ canScroll.left
                                \/ canScroll.right \/ canScroll.down
             shouldRender == IF isFunction THEN TRUE ELSE isActive
             stateArg == IF direction # "any" THEN isActive ELSE canScroll
         IN [evaluated |-> TRUE, threw |-> FALSE, direction |-> direction,
             isFunction |-> isFunction, active |-> isActive,
             rendered |-> shouldRender,
             arg |-> IF isFunction THEN stateArg ELSE "none"]

----------------------------------------------------------------------------
(* State                                                                   *)

VARIABLES
    phase,          \* provider: "initial" (rendered, not committed), "mounted", "unmounted"
    content,        \* <Overflow.Content>: "absent", "rendered", "mounted", "unmounted"
    state,          \* the state object useReducer last returned to the provider
    nextId,         \* identity of the next object to be allocated
    queue,          \* actions dispatched and not yet reduced
    nCalls,         \* number of calls of onStateChange so far
    lastCall,       \* the state onStateChange was last called with
    nAccepted,      \* number of state objects the reducer has produced so far
    tolerance,      \* prop tolerance of the provider (px, 0 = none)
    onStateChange,  \* identity of the onStateChange prop, 0 = not given
    ignore,         \* the ignore flag of the observer effect
    observers,      \* observersRef: "none", "created", "disconnected"
    observing,      \* node each observer observes: "content", "tolerance", "none"
    prev,           \* per observer: <<threshold index, isIntersecting>> last computed
    queued,         \* per observer: entries queued and not yet delivered
    geo,            \* viewport size, content size, scroll offsets
    nEvents,        \* platform events (scroll, resize, irregular report) so far
    nRerender,      \* prop changes so far
    ind,            \* result of the last evaluation of an <Overflow.Indicator>
    last            \* the step taken last

storeVars == <<state, nextId, queue, nCalls, lastCall, nAccepted>>
propVars == <<tolerance, onStateChange>>
obsVars == <<ignore, observers, observing, prev, queued>>
countVars == <<nEvents, nRerender>>
vars == <<phase, content, storeVars, propVars, obsVars, geo, countVars, ind, last>>

NoNode == [d \in Direction |-> "none"]
NoPrev == [d \in Direction |-> <<-1, FALSE>>]
NoEntries == [d \in Direction |-> <<>>]

\* geometries over a set of lengths: the content is at least as wide as the
\* viewport (minWidth: '100%'), scroll offsets stay within the scroll range
Geometries(Lens, Views) ==
    {g \in [vw : Views, vh : Views, cw : Lens, ch : Lens, sl : Lens, st : Lens] :
        /\ g.cw >= g.vw
        /\ g.sl <= Max(0, g.cw - g.vw)
        /\ g.st <= Max(0, g.ch - g.vh)}

CoarseLengths == {10 * i : i \in 0..(MaxUnits \div 3)}
ViewportSizes == {10}
Tolerances == {0, 5, 10}
Callbacks == {0, 1, 2}

InitWith(Geos, Tols, Cbs, Contents) ==
    /\ phase = "initial"
    /\ content \in Contents
    /\ state = getInitialState
    /\ nextId = 1
    /\ queue = <<>>
    /\ nCalls = 0
    /\ lastCall = [id |-> -1]
    /\ nAccepted = 0
    /\ tolerance \in Tols
    /\ onStateChange \in Cbs
    /\ ignore = FALSE
    /\ observers = "none"
    /\ observing = NoNode
    /\ prev = NoPrev
    /\ queued = NoEntries
    /\ geo \in Geos
    /\ nEvents = 0
    /\ nRerender = 0
    /\ ind = [evaluated |-> FALSE]
    /\ last = [op |-> "Init"]

CoarseGeometries == Geometries(CoarseLengths, ViewportSizes)
\* content as wide as the viewport, any height
TallGeometries == {g \in CoarseGeometries : g.cw = g.vw}
\* the tolerances the parent switches between
PropTolerances == {0, 5}

\* content as wide as it is high, scrolled along its diagonal
SquareGeometries == {g \in CoarseGeometries : g.cw = g.ch /\ g.sl = g.st}

Init == InitWith(SquareGeometries, PropTolerances, {1}, {"rendered"})

----------------------------------------------------------------------------
(* Actions                                                                 *)

\* a mount whose provider creates and registers the observers itself,
\* whether or not an <Overflow.Content> was rendered
MountAlwaysObserves ==
    /\ phase = "initial"
    /\ phase' = "mounted"
    /\ content' = IF content = "rendered" THEN "mounted" ELSE content
    /\ ignore' = FALSE
    /\ observers' = "created"
    /\ observing' = [d \in Direction |-> watchRef(tolerance)]
    /\ prev' = NoPrev
    /\ IF onStateChange # 0
       THEN nCalls' = nCalls + 1 /\ lastCall' = state
       ELSE UNCHANGED <<nCalls, lastCall>>
    /\ last' = [op |-> "Mount"]
    /\ UNCHANGED <<state, nextId, queue, nAccepted, propVars, queued, geo, countVars, ind>>

\* first commit of the provider: the effects of <Overflow.Content> run first
\* (observers created, then observe(watchNode)), then the provider's effect
Mount ==
    /\ phase = "initial"
    /\ phase' = "mounted"
    /\ IF content = "rendered"
       THEN /\ content' = "mounted"
            /\ ignore' = FALSE
            /\ observers' = "created"
            /\ observing' = [d \in Direction |-> watchRef(tolerance)]
            /\ prev' = NoPrev
       ELSE UNCHANGED <<content, ignore, observers, observing, prev>>
    /\ IF onStateChange # 0
       THEN nCalls' = nCalls + 1 /\ lastCall' = state
       ELSE UNCHANGED <<nCalls, lastCall>>
    /\ last' = [op |-> "Mount"]
    /\ UNCHANGED <<state, nextId, queue, nAccepted, propVars, queued, geo, countVars, ind>>

\* the user scrolls the viewport
Scroll ==
    /\ phase = "mounted"
    /\ nEvents < MaxEvents
    /\ \E g \in TallGeometries :
          /\ g.vw = geo.vw /\ g.vh = geo.vh /\ g.cw = geo.cw /\ g.ch = geo.ch
          /\ g # geo
          /\ geo' = g
    /\ nEvents' = nEvents + 1
    /\ last' = [op |-> "Scroll"]
    /\ UNCHANGED <<phase, content, storeVars, propVars, obsVars, nRerender, ind>>

\* the content changes size; the scroll offsets are clamped to the new range
Resize ==
    /\ phase = "mounted"
    /\ nEvents < MaxEvents
    /\ \E g \in TallGeometries :
          /\ g.vw = geo.vw /\ g.vh = geo.vh
          /\ <<g.cw, g.ch>> # <<geo.cw, geo.ch>>
          /\ g.sl = Min(geo.sl, Max(0, g.cw - g.vw))
          /\ g.st = Min(geo.st, Max(0, g.ch - g.vh))
          /\ geo' = g
    /\ nEvents' = nEvents + 1
    /\ last' = [op |-> "Resize"]
    /\ UNCHANGED <<phase, content, storeVars, propVars, obsVars, nRerender, ind>>

\* one "update intersection observations" step of the browser: every
\* observer computes its target's intersection and queues an entry when the
\* threshold index or isIntersecting differs from what it computed before
UpdateObservations ==
    LET entry(d) == ComputeEntry(d, observing[d], geo, tolerance)
        key(d) == <<thresholdIndex(entry(d).ratioNum, entry(d).ratioDen),
                    entry(d).isIntersecting>>
        changed == {d \in Direction : observing[d] # "none" /\ key(d) # prev[d]}
    IN /\ changed # {}
       /\ \A d \in changed : Len(queued[d]) < MaxEntries
       /\ queued' = [d \in Direction |->
                        IF d \in changed THEN Append(queued[d], entry(d)) ELSE queued[d]]
       /\ prev' = [d \in Direction |-> IF d \in changed THEN key(d) ELSE prev[d]]
       /\ last' = [op |-> "UpdateObservations"]
       /\ UNCHANGED <<phase, content, storeVars, propVars, ignore, observers, observing,
                      geo, countVars, ind>>

\* entries as runtimes have been seen to report them, the size, the ratio
\* and isIntersecting not agreeing with one another
IrregularEntries ==
    [target : {"content"}, width : {0, 10}, height : {0, 10},
     ratioNum : {0, 1}, ratioDen : {1}, isIntersecting : BOOLEAN]

\* the runtime queues such an entry for observer d
Report(d) ==
    /\ nEvents < MaxEvents
    /\ observing[d] # "none"
    /\ Len(queued[d]) < MaxEntries
    /\ \E entry \in IrregularEntries :
          queued' = [queued EXCEPT ![d] = Append(queued[d], [entry EXCEPT !.target = observing[d]])]
    /\ nEvents' = nEvents + 1
    /\ last' = [op |-> "Report"]
    /\ UNCHANGED <<phase, content, storeVars, propVars, ignore, observers, observing,
                   prev, geo, nRerender, ind>>

\* the browser invokes the callback of observer d with its queued entries
Deliver(d) ==
    LET dispatched == createObserver(ignore, d, queued[d]) IN
    /\ queued[d] # <<>>
    /\ Len(queue) + Len(dispatched) <= MaxQueue
    /\ queued' = [queued EXCEPT ![d] = <<>>]
    /\ queue' = IF phase = "mounted" THEN queue \o dispatched ELSE queue
    /\ last' = [op |-> "Deliver", direction |-> d, entry |-> queued[d][1],
                dispatched |-> dispatched]
    /\ UNCHANGED <<phase, content, state, nextId, nCalls, lastCall, nAccepted, propVars,
                   ignore, observers, observing, prev, geo, nEvents, nRerender, ind>>

\* a commit whose observe effect moves only the observers of up and down
\* to the new watch node
CommitPartial(op, tol, cb) ==
    LET r == Reduce(state, queue, nextId, <<>>) IN
    /\ phase = "mounted"
    /\ state' = r.state
    /\ nextId' = r.fresh
    /\ queue' = <<>>
    /\ nAccepted' = nAccepted + Len(r.produced)
    /\ tolerance' = tol
    /\ onStateChange' = cb
    /\ IF content = "mounted" /\ watchRef(tol) # watchRef(tolerance)
       THEN /\ observing' = [d \in Direction |->
                                IF d \in {"up", "down"} THEN watchRef(tol)
                                ELSE observing[d]]
            /\ prev' = NoPrev
       ELSE UNCHANGED <<observing, prev>>
    /\ IF onStateChangeDeps(onStateChange, cb, state, r.state) /\ cb # 0
       THEN nCalls' = nCalls + 1 /\ lastCall' = r.state
       ELSE UNCHANGED <<nCalls, lastCall>>
    /\ last' = [op |-> op, processed |-> Len(queue), accepted |-> Len(r.produced)]
    /\ UNCHANGED <<phase, content, ignore, observers, queued, geo, nEvents, ind>>

\* a commit whose provider effect has tolerance among its dependencies
CommitToleranceDep(op, tol, cb) ==
    LET r == Reduce(state, queue, nextId, <<>>) IN
    /\ phase = "mounted"
    /\ state' = r.state
    /\ nextId' = r.fresh
    /\ queue' = <<>>
    /\ nAccepted' = nAccepted + Len(r.produced)
    /\ tolerance' = tol
    /\ onStateChange' = cb
    /\ IF content = "mounted" /\ watchRef(tol) # watchRef(tolerance)
       THEN /\ observing' = [d \in Direction |-> watchRef(tol)]
            /\ prev' = NoPrev
       ELSE UNCHANGED <<observing, prev>>
    /\ IF (onStateChangeDeps(onStateChange, cb, state, r.state) \/ tol # tolerance) /\ cb # 0
       THEN nCalls' = nCalls + 1 /\ lastCall' = r.state
       ELSE UNCHANGED <<nCalls, lastCall>>
    /\ last' = [op |-> op, processed |-> Len(queue), accepted |-> Len(r.produced)]
    /\ UNCHANGED <<phase, content, ignore, observers, queued, geo, nEvents, ind>>

\* a render and commit of the provider with props tol and cb: useReducer
\* reduces the pending actions, <Overflow.Content> re-observes when watchRef
\* changed, and the provider's effect runs when its dependencies changed
Commit(op, tol, cb) ==
    LET r == Reduce(state, queue, nextId, <<>>) IN
    /\ phase = "mounted"
    /\ state' = r.state
    /\ nextId' = r.fresh
    /\ queue' = <<>>
    /\ nAccepted' = nAccepted + Len(r.produced)
    /\ tolerance' = tol
    /\ onStateChange' = cb
    /\ IF content = "mounted" /\ watchRef(tol) # watchRef(tolerance)
       THEN /\ observing' = [d \in Direction |-> watchRef(tol)]
            /\ prev' = NoPrev
       ELSE UNCHANGED <<observing, prev>>
    /\ IF onStateChangeDeps(onStateChange, cb, state, r.state) /\ cb # 0
       THEN nCalls' = nCalls + 1 /\ lastCall' = r.state
       ELSE UNCHANGED <<nCalls, lastCall>>
    /\ last' = [op |-> op, processed |-> Len(queue), accepted |-> Len(r.produced)]
    /\ UNCHANGED <<phase, content, ignore, observers, queued, geo, nEvents, ind>>

\* React renders the provider because actions are pending
Flush ==
    /\ queue # <<>>
    /\ Commit("Flush", tolerance, onStateChange)
    /\ UNCHANGED nRerender

\* the parent renders the provider with another tolerance or with another
\* onStateChange
Rerender ==
    /\ nRerender < MaxRerender
    /\ \E tol \in PropTolerances, cb \in Callbacks :
          /\ (tol # tolerance) # (cb # onStateChange)
          /\ Commit("Rerender", tol, cb)
    /\ nRerender' = nRerender + 1

\* the directions descendants dispatch for
ConsumerDirections == {"up"}

\* a descendant of the provider calls the dispatch it got from
\* useOverflow(), with a CHANGE or with an action of a type the reducer
\* does not know.  The field by marks the action as not coming from an
\* observer callback; the reducer does not read it.
ConsumerDispatch ==
    /\ phase = "mounted"
    /\ nEvents < MaxEvents
    /\ Len(queue) < MaxQueue
    /\ \E type \in {"CHANGE", "RESET"}, d \in ConsumerDirections, b \in BOOLEAN :
          queue' = Append(queue, [type |-> type, direction |-> d, canScroll |-> b,
                                  by |-> "consumer"])
    /\ nEvents' = nEvents + 1
    /\ last' = [op |-> "ConsumerDispatch"]
    /\ UNCHANGED <<phase, content, state, nextId, nCalls, lastCall, nAccepted, propVars,
                   obsVars, geo, nRerender, ind>>

\* cleanup of the two effects of <Overflow.Content>
Teardown ==
    /\ ignore' = TRUE
    /\ observers' = "disconnected"
    /\ observing' = NoNode
    /\ UNCHANGED <<prev, queued>>

\* <Overflow.Content> is removed while the provider stays mounted
UnmountContent ==
    /\ phase = "mounted"
    /\ content = "mounted"
    /\ content' = "unmounted"
    /\ Teardown
    /\ last' = [op |-> "UnmountContent"]
    /\ UNCHANGED <<phase, storeVars, propVars, geo, countVars, ind>>

\* the provider is removed, and <Overflow.Content> with it
Unmount ==
    /\ phase = "mounted"
    /\ phase' = "unmounted"
    /\ IF content = "mounted"
       THEN content' = "unmounted" /\ Teardown
       ELSE UNCHANGED <<content, obsVars>>
    /\ queue' = <<>>
    /\ last' = [op |-> "Unmount"]
    /\ UNCHANGED <<state, nextId, nCalls, lastCall, nAccepted, propVars, geo, countVars, ind>>

\* an <Overflow.Indicator> is rendered, inside the mounted provider or
\* without any provider around it
EvalIndicator ==
    \E provided \in BOOLEAN, direction \in Direction \cup {"any"}, isFunction \in BOOLEAN :
       /\ provided => phase = "mounted"
       /\ ind' = [provided |-> provided] @@
                 OverflowIndicator(IF provided THEN ProviderContext(state, tolerance)
                                   ELSE Context,
                                   direction, isFunction)
       /\ last' = [op |-> "EvalIndicator"]
       /\ UNCHANGED <<phase, content, storeVars, propVars, obsVars, geo, countVars>>

Next ==
    \/ Mount
    \/ UpdateObservations
    \/ \E d \in Direction : Deliver(d)
    \/ Flush
    \/ Rerender
    \/ UnmountContent
    \/ Unmount

Spec == Init /\ [][Next]_vars

\* a provider whose props and geometry stay fixed, over all geometries
FixedGeometries == Geometries(Lengths, ViewportSizes)

InitFixed == InitWith(FixedGeometries, Tolerances, {1}, {"rendered"})

NextFixed ==
    \/ Mount
    \/ UpdateObservations
    \/ \E d \in Direction : Deliver(d)
    \/ Flush

SpecFixed == InitFixed /\ [][NextFixed]_vars

\* the provider on a runtime whose reports are irregular
InitEntry == InitWith({g \in TallGeometries : g.ch = g.vh}, {0}, {1}, {"rendered"})

NextEntry ==
    \/ Mount
    \/ UpdateObservations
    \/ \E d \in Direction : Report(d)
    \/ \E d \in Direction : Deliver(d)
    \/ Flush

SpecEntry == InitEntry /\ [][NextEntry]_vars

\* the provider with indicators evaluated inside and outside of it
InitInd == InitWith(TallGeometries, {0}, {1}, {"rendered"})

NextInd ==
    \/ Mount
    \/ UpdateObservations
    \/ \E d \in Direction : Deliver(d)
    \/ Flush
    \/ EvalIndicator

SpecInd == InitInd /\ [][NextInd]_vars

\* the provider while the user scrolls and the content changes size
InitScroll == InitWith(TallGeometries, {0}, {1}, {"rendered"})

NextScroll ==
    \/ Mount
    \/ Scroll
    \/ Resize
    \/ UpdateObservations
    \/ \E d \in Direction : Deliver(d)
    \/ Flush
    \/ UnmountContent

SpecScroll == InitScroll /\ [][NextScroll]_vars

\* the provider and its content staying mounted while the user scrolls and
\* the content changes size a bounded number of times.  The first commit
\* happens, the browser updates the intersection observations at every
\* rendering opportunity, runs the notify task of an observer that has
\* entries queued, and React renders while actions are pending.
NextLive ==
    \/ Mount
    \/ Scroll
    \/ Resize
    \/ UpdateObservations
    \/ \E d \in Direction : Deliver(d)
    \/ Flush

FairLive ==
    /\ WF_vars(Mount)
    /\ WF_vars(UpdateObservations)
    /\ \A d \in Direction : WF_vars(Deliver(d))
    /\ WF_vars(Flush)

SpecLive == InitScroll /\ [][NextLive]_vars /\ FairLive

\* the provider with descendants that use the dispatch of the context
InitDispatch ==
    InitWith({g \in TallGeometries : g.ch = 20 /\ g.st = 0}, {0}, {1}, {"rendered"})

NextDispatch ==
    \/ Mount
    \/ UpdateObservations
    \/ \E d \in Direction : Deliver(d)
    \/ Flush
    \/ Rerender
    \/ ConsumerDispatch

SpecDispatch == InitDispatch /\ [][NextDispatch]_vars

\* the provider rendered with or without an <Overflow.Content> inside it
InitLayout == InitWith(SquareGeometries, PropTolerances, {1}, {"absent", "rendered"})

SpecLayout == InitLayout /\ [][Next]_vars

----------------------------------------------------------------------------
(* Properties of the store                                                 *)

\* a step in which useReducer reduces its pending actions
Reduces == queue # <<>> /\ queue' = <<>> /\ phase' = "mounted"

\* a step in which the browser delivers the queued entries of some observer
Delivers == \E d \in Direction : queued[d] # <<>> /\ queued'[d] = <<>>

\* C1: a CHANGE whose value equals the value the state holds for its
\* direction makes the reducer return the very same state object
C1_NoOpKeepsIdentity ==
    \A d \in Direction, b \in BOOLEAN :
        state.canScroll[d] = b => reducer(state, Change(d, b), nextId) = state

\* a render has reduced pending actions, all of them no-ops
C1_Witness ==
    /\ last.op = "Flush"
    /\ last.processed >= 1
    /\ last.accepted = 0
    /\ nextId = 1 + nAccepted

\* C2: reducing CHANGE actions leaves every direction that none of them
\* names at the value it had
C2_OtherDirectionsKept ==
    [][Reduces =>
         \A e \in Direction :
            (\A i \in 1..Len(queue) : queue[i].direction # e)
               => state'.canScroll[e] = state.canScroll[e]]_vars

\* a CHANGE was accepted while another direction was true
C2_Witness ==
    /\ last.op = "Flush"
    /\ last.accepted >= 1
    /\ \E d, e \in Direction : d # e /\ state.canScroll[d] /\ state.canScroll[e]

\* C3: canScroll always has exactly the four directions, each a boolean
C3_FourBooleans ==
    /\ DOMAIN state.canScroll = Direction
    /\ \A d \in Direction : state.canScroll[d] \in BOOLEAN

\* the reducer has produced a new state object
C3_Witness ==
    /\ nAccepted >= 1
    /\ state.id # getInitialState.id

\* C4: once the cleanup has set ignore, delivering a report dispatches
\* nothing, changes no state and calls onStateChange not at all
C4_LateReportDropped ==
    [][(ignore /\ Delivers) =>
          /\ queue' = queue
          /\ state' = state
          /\ nCalls' = nCalls]_vars

\* a report was delivered after <Overflow.Content> was torn down while the
\* provider is still mounted
C4_Witness ==
    /\ ignore
    /\ phase = "mounted"
    /\ content = "unmounted"
    /\ last.op = "Deliver"
    /\ last.dispatched = <<>>

----------------------------------------------------------------------------
(* Properties of the onStateChange callback                                *)

\* C6 as stated: one call at mount and one per accepted CHANGE
C6_OncePerAcceptedChange ==
    (phase = "mounted" /\ nRerender = 0) => nCalls = 1 + nAccepted

\* C6: as long as the onStateChange prop is the same function, the callback
\* is called once by the mount commit and once by every later commit that
\* changes the state object, with the state committed, and by no other step
C6_OncePerChangingCommit ==
    [][(phase' = "mounted" /\ onStateChange # 0 /\ onStateChange' = onStateChange) =>
          /\ nCalls' = nCalls + (IF phase = "initial" \/ state'.id # state.id
                                 THEN 1 ELSE 0)
          /\ (phase = "initial" \/ state'.id # state.id) => lastCall' = state']_vars

\* one commit reduced two state-changing actions and called back once
C6_Witness ==
    /\ last.op = "Flush"
    /\ last.accepted = 2
    /\ nRerender = 0
    /\ nCalls = 2
    /\ lastCall = state

\* C7: a render that reduces only no-ops, and so returns the same state
\* object, does not call onStateChange
C7_NoOpNoCallback ==
    [][(Reduces /\ state'.id = state.id /\ onStateChange' = onStateChange)
          => nCalls' = nCalls]_vars

\* a render reduced a no-op while a callback is given
C7_Witness ==
    /\ last.op = "Flush"
    /\ last.accepted = 0
    /\ last.processed >= 1
    /\ onStateChange # 0
    /\ nCalls >= 1

----------------------------------------------------------------------------
(* Properties of <Overflow.Indicator>                                      *)

\* C5: an indicator evaluated without a provider around it does not fail
\* and is inactive, whatever its direction
C5_InertWithoutProvider ==
    (ind.evaluated /\ ~ind.provided) => (~ind.threw /\ ~ind.active)

\* an indicator was evaluated inside the provider in the present state
Evaluated == last.op = "EvalIndicator" /\ ind.provided

\* C13: an indicator inside the provider is active exactly when its
\* direction can scroll, or, without a direction, when any of the four can;
\* so the one without a direction is active exactly when one with a
\* direction is
C13_ActiveFromCanScroll ==
    /\ Evaluated =>
          /\ ~ind.threw
          /\ ind.direction # "any" => ind.active = state.canScroll[ind.direction]
          /\ ind.direction = "any" =>
                ind.active = (state.canScroll.up \/ state.canScroll.left
                                \/ state.canScroll.right \/ state.canScroll.down)
    /\ phase = "mounted" =>
          LET ctx == ProviderContext(state, tolerance) IN
          \A f \in BOOLEAN :
             OverflowIndicator(ctx, "any", f).active
                = (\E d \in Direction : OverflowIndicator(ctx, d, f).active)

\* an indicator without a direction was found active while some direction
\* cannot scroll
C13_Witness ==
    /\ Evaluated
    /\ ind.direction = "any"
    /\ ind.active
    /\ \E d \in Direction : ~state.canScroll[d]

\* C14: children that are not a function are rendered exactly when the
\* indicator is active; children that are a function are called whether it
\* is active or not, with the boolean of the direction or, without a
\* direction, with canScroll, and what they return is rendered
C14_RenderModes ==
    Evaluated =>
       /\ ~ind.isFunction => (ind.rendered = ind.active /\ ind.arg = "none")
       /\ ind.isFunction =>
             /\ ind.rendered
             /\ ind.arg = IF ind.direction # "any"
                          THEN state.canScroll[ind.direction]
                          ELSE state.canScroll

\* a children function of an indicator for up was called with false and
\* rendered while only down can scroll
C14_Witness ==
    /\ Evaluated
    /\ ind.isFunction
    /\ ind.direction = "up"
    /\ ~ind.active
    /\ ind.rendered
    /\ ind.arg = FALSE
    /\ state.canScroll.down

----------------------------------------------------------------------------
(* Properties of the observers                                             *)

\* every observer has computed the intersection of the present geometry
UpToDate ==
    \A d \in Direction :
       /\ observing[d] # "none"
       /\ LET e == ComputeEntry(d, observing[d], geo, tolerance)
          IN prev[d] = <<thresholdIndex(e.ratioNum, e.ratioDen), e.isIntersecting>>

\* the latest report of every observer has been delivered and reduced
Settled ==
    /\ phase = "mounted"
    /\ content = "mounted"
    /\ UpToDate
    /\ queued = NoEntries
    /\ queue = <<>>

\* the content box extends beyond edge d of the viewport
Overflows(d, g) ==
    CASE d = "up"    -> g.st > 0
      [] d = "left"  -> g.sl > 0
      [] d = "right" -> g.cw - g.sl > g.vw
      [] d = "down"  -> g.ch - g.st > g.vh

\* distance the viewport can still be scrolled toward d
Remaining(d, g) ==
    CASE d = "up"    -> g.st
      [] d = "left"  -> g.sl
      [] d = "right" -> Max(0, g.cw - g.sl - g.vw)
      [] d = "down"  -> Max(0, g.ch - g.st - g.vh)

\* C8: the boolean the callback dispatches for a report is: the target has
\* a non-zero width or a non-zero height, and intersectionRatio is not 0,
\* and isIntersecting
C8_DispatchedBoolean ==
    [][\A d \in Direction :
          (queued[d] # <<>> /\ queued'[d] = <<>> /\ queue' # queue) =>
             LET entry == queued[d][1] IN
             queue'[Len(queue')] =
                Change(d, /\ (entry.width # 0 \/ entry.height # 0)
                          /\ entry.ratioNum # 0
                          /\ entry.isIntersecting)]_vars

\* a report with a ratio that is not 0 and isIntersecting false was
\* delivered, and false was dispatched for it
C8_Witness ==
    /\ last.op = "Deliver"
    /\ last.entry.width # 0
    /\ last.entry.ratioNum # 0
    /\ ~last.entry.isIntersecting
    /\ last.dispatched = <<Change(last.direction, FALSE)>>

\* C8 as stated: the size test is that the target has non-zero area
C8_NonZeroArea ==
    [][\A d \in Direction :
          (queued[d] # <<>> /\ queued'[d] = <<>> /\ queue' # queue) =>
             LET entry == queued[d][1] IN
             queue'[Len(queue')] =
                Change(d, /\ entry.width * entry.height # 0
                          /\ entry.ratioNum # 0
                          /\ entry.isIntersecting)]_vars

\* C9: with zero tolerance, once every observer's latest report is applied
\* canScroll[d] says whether the content extends beyond edge d; content that
\* exactly fills the viewport never has a direction true
C9_ZeroToleranceReading ==
    /\ (tolerance = 0 /\ Settled) =>
          \A d \in Direction : state.canScroll[d] = Overflows(d, geo)
    /\ (tolerance = 0 /\ geo.cw = geo.vw /\ geo.ch = geo.vh) =>
          \A d \in Direction : ~state.canScroll[d]

\* C10: with a tolerance the observers watch the tolerance element, and once
\* every observer's latest report is applied canScroll[d] is false when at
\* most tolerance is left to scroll toward d
C10_WithinToleranceIsFalse ==
    (tolerance # 0 /\ content = "mounted") =>
       /\ \A d \in Direction : observing[d] = "tolerance"
       /\ Settled =>
             \A d \in Direction :
                Remaining(d, geo) <= tolerance => ~state.canScroll[d]

\* the value the callback of observer d dispatches for the entry the
\* observer computes in geometry g under tolerance tol
Reading(d, g, tol) ==
    createObserver(FALSE, d, <<ComputeEntry(d, watchRef(tol), g, tol)>>)[1].canScroll

\* C11: for one geometry, a direction that reads false once settled under
\* the tolerance in force reads false under every larger tolerance too
C11_ToleranceMonotone ==
    Settled =>
       \A d \in Direction, t2 \in Tolerances :
          (tolerance <= t2 /\ ~state.canScroll[d]) => ~Reading(d, geo, t2)

\* C12: a provider without an <Overflow.Content> mounts, never has an
\* observer created or observing, and keeps all four directions false
C12_NoContentNoObservers ==
    content = "absent" =>
       /\ observers = "none"
       /\ observing = NoNode
       /\ queued = NoEntries
       /\ queue = <<>>
       /\ \A d \in Direction : ~state.canScroll[d]
       /\ phase = "mounted" => nCalls >= 1

\* such a provider has mounted and has been rendered again with another
\* tolerance
C12_Witness ==
    /\ content = "absent"
    /\ phase = "mounted"
    /\ last.op = "Rerender"
    /\ tolerance # 0

\* C15: once scrolling and resizing have stopped, canScroll comes to say,
\* for every direction, whether more than the tolerance is left to scroll,
\* and says so from then on
C15_EventuallyTrueOverflow ==
    <>[](\A d \in Direction : state.canScroll[d] = (Remaining(d, geo) > tolerance))

\* C16: while <Overflow.Content> is mounted all four observers observe one
\* node, the tolerance element when tolerance is not 0 and the content
\* element otherwise; no state has them on different nodes
C16_OneWatchedNode ==
    content = "mounted" =>
       /\ \A d \in Direction : observing[d] = watchRef(tolerance)
       /\ \A d, e \in Direction : observing[d] = observing[e]

\* a re-render has just moved the observers from the content element,
\* whose reports had reached the state, to the tolerance element
C16_Witness ==
    /\ content = "mounted"
    /\ last.op = "Rerender"
    /\ tolerance # 0
    /\ prev = NoPrev
    /\ nAccepted >= 1
    /\ \A d \in Direction : observing[d] = "tolerance"

----------------------------------------------------------------------------
(* Frame of the state                                                      *)

\* C17 as stated: every direction a step changes was set by a CHANGE that
\* an observer callback dispatched
C17_OnlyObserverChanges ==
    [][state' # state =>
          /\ Reduces
          /\ \A d \in Direction :
                state'.canScroll[d] # state.canScroll[d] =>
                   \E i \in 1..Len(queue) : queue[i] = Change(d, state'.canScroll[d])]_vars

\* C17: the state object changes only in a step in which the reducer
\* applies a CHANGE, whoever dispatched it, that carries a value different
\* from the one held; actions of another type, re-renders, indicator
\* evaluations, callbacks, observing and teardown leave it the same object
C17_OnlyChangeChanges ==
    [][/\ state' # state =>
             /\ Reduces
             /\ state'.id # state.id
             /\ \A d \in Direction :
                   state'.canScroll[d] # state.canScroll[d] =>
                      \E i \in 1..Len(queue) :
                         /\ queue[i].type = "CHANGE"
                         /\ queue[i].direction = d
                         /\ queue[i].canScroll = state'.canScroll[d]
       /\ (\A i \in 1..Len(queue) : queue[i].type # "CHANGE") => state' = state]_vars

\* a render reduced one action and changed the state before any observer
\* had reported: the CHANGE came from a descendant
C17_Witness ==
    /\ last.op = "Flush"
    /\ last.processed = 1
    /\ last.accepted = 1
    /\ nEvents = 1
    /\ nRerender = 0
    /\ prev = NoPrev
    /\ content = "mounted"

----------------------------------------------------------------------------
(* Reports with several entries, reports about a node no longer watched    *)

\* the value the callback of observer d derives from one entry
Derived(d, entry) == createObserver(FALSE, d, <<entry>>)[1].canScroll

\* C18: when the callback of an observer runs with several entries, oldest
\* first, the value it dispatches is the one derived from the last of them
C18_LatestEntryWins ==
    [][\A d \in Direction :
          (queued[d] # <<>> /\ queued'[d] = <<>> /\ queue' # queue) =>
             queue'[Len(queue')] = Change(d, Derived(d, queued[d][Len(queued[d])]))]_vars

\* C19: a CHANGE is dispatched only for an entry about the node the
\* observer observes at that time; an entry about the node observed before
\* a change of the watch node is not turned into a CHANGE
C19_OnlyCurrentTarget ==
    [][\A d \in Direction :
          (queued[d] # <<>> /\ queued'[d] = <<>> /\ queue' # queue) =>
             queued[d][1].target = observing[d]]_vars

----------------------------------------------------------------------------
(* When onStateChange is called                                            *)

\* C20 as stated: onStateChange is called only by the mount commit and by
\* commits that change the state object
C20_OnlyMountAndStateChange ==
    [][nCalls' # nCalls => (phase = "initial" \/ state'.id # state.id)]_vars

\* C20: onStateChange is called, once, only by the mount commit, by a
\* commit that changes the state object and by a commit that brings a new
\* onStateChange function; a re-render that changes only the tolerance and
\* leaves the state object as it is does not call it
C20_CallbackCauses ==
    [][/\ nCalls' # nCalls =>
             /\ nCalls' = nCalls + 1
             /\ \/ phase = "initial"
                \/ state'.id # state.id
                \/ onStateChange' # onStateChange
       /\ (phase = "mounted" /\ tolerance' # tolerance /\ state'.id = state.id
             /\ onStateChange' = onStateChange) => nCalls' = nCalls]_vars

\* the provider was rendered with another tolerance, the state object and
\* the callback staying the same, and only the mount has called back
C20_Witness ==
    /\ phase = "mounted"
    /\ last.op = "Rerender"
    /\ last.accepted = 0
    /\ nRerender = 1
    /\ onStateChange = 1
    /\ nAccepted = 0
    /\ nCalls = 1

====
